---------------------------- MODULE Spec2Model ----------------------------
(***************************************************************************)
(* A model of the AndroStudio package repository generator                 *)
(* (generate_repo.py, repo_manager.py).                                    *)
(*                                                                         *)
(* Text is modelled as a sequence of atoms.  An atom is a TLA+ string that *)
(* stands for a piece of the Python string: a single character, or a whole *)
(* word whose inner characters the program never looks at.  The atoms the  *)
(* program does look at are always atoms of their own: "\n" (line break),  *)
(* ": " (the field separator), " " and "\t" (leading white space), "_"     *)
(* (the file name separator), "/" (the path separator) and ".deb" (the     *)
(* suffix).  Concatenation of texts is \o, so formatting, joining,         *)
(* splitting and parsing are computed on the text, as the code does.       *)
(***************************************************************************)
EXTENDS Naturals, Sequences, FiniteSets, TLC

---------------------------------------------------------------------------
(* Sequences and text                                                      *)

Last(s) == s[Len(s)]

Front(s) == SubSeq(s, 1, Len(s) - 1)

Range(s) == { s[i] : i \in DOMAIN s }

\* Index of the first occurrence of atom a in s, 0 when there is none
\* (str.find / the test "a in s").
IndexOf(s, a) ==
    IF \E i \in DOMAIN s : s[i] = a
    THEN CHOOSE i \in DOMAIN s : s[i] = a /\ \A j \in 1..(i - 1) : s[j] # a
    ELSE 0

\* str.split(sep): the pieces of s between the occurrences of sep.
RECURSIVE split(_, _)
split(s, sep) ==
    LET i == IndexOf(s, sep) IN
    IF i = 0 THEN << s >>
    ELSE << SubSeq(s, 1, i - 1) >> \o split(SubSeq(s, i + 1, Len(s)), sep)

\* str.splitlines(): as split on the line break, without the empty piece a
\* final line break leaves, and no line at all for the empty text.
splitlines(s) ==
    LET p == split(s, "\n") IN
    IF s = << >> THEN << >>
    ELSE IF Last(p) = << >> THEN Front(p) ELSE p

\* sep.join(pieces)
RECURSIVE join(_, _)
join(pieces, sep) ==
    IF pieces = << >> THEN << >>
    ELSE IF Len(pieces) = 1 THEN pieces[1]
    ELSE pieces[1] \o sep \o join(Tail(pieces), sep)

WhiteSpace == { " ", "\t", "\n", "\r" }

RECURSIVE lstrip(_)
lstrip(s) ==
    IF s # << >> /\ s[1] \in WhiteSpace THEN lstrip(Tail(s)) ELSE s

RECURSIVE rstrip(_)
rstrip(s) ==
    IF s # << >> /\ Last(s) \in WhiteSpace THEN rstrip(Front(s)) ELSE s

\* str.strip()
strip(s) == rstrip(lstrip(s))

\* The code point of a character (for the characters file names are made of).
CodePoint(c) ==
    CASE c = "."    -> 46
      [] c = ".deb" -> 46
      [] c = "1"    -> 49
      [] c = "2"    -> 50
      [] c = "3"    -> 51
      [] c = "4"    -> 52
      [] c = "6"    -> 54
      [] c = "8"    -> 56
      [] c = "B"    -> 66
      [] c = "M"    -> 77
      [] c = "_"    -> 95
      [] c = "a"    -> 97
      [] c = "b"    -> 98
      [] c = "c"    -> 99
      [] c = "d"    -> 100
      [] c = "h"    -> 104
      [] c = "i"    -> 105
      [] c = "l"    -> 108
      [] c = "m"    -> 109
      [] c = "n"    -> 110
      [] c = "o"    -> 111
      [] c = "p"    -> 112
      [] c = "r"    -> 114
      [] c = "s"    -> 115
      [] c = "x"    -> 120
      [] OTHER      -> 0

\* str.lower() of one character.
lower(c) ==
    CASE c = "B" -> "b"
      [] c = "M" -> "m"
      [] OTHER   -> c

\* a < b for two strings (Python's str.__lt__: lexicographic by code point).
RECURSIVE StrLess(_, _)
StrLess(a, b) ==
    IF b = << >> THEN FALSE
    ELSE IF a = << >> THEN TRUE
    ELSE IF a[1] = b[1] THEN StrLess(Tail(a), Tail(b))
    ELSE CodePoint(a[1]) < CodePoint(b[1])

---------------------------------------------------------------------------
(* dict: an insertion-ordered mapping, a sequence of [k, v] with distinct k *)

DictKeys(d) == { d[i].k : i \in DOMAIN d }

DictHas(d, key) == key \in DictKeys(d)

DictPos(d, key) == CHOOSE i \in DOMAIN d : d[i].k = key

\* d[key]
DictAt(d, key) == d[DictPos(d, key)].v

\* d.get(key, default)
DictGet(d, key, default) == IF DictHas(d, key) THEN DictAt(d, key) ELSE default

\* d[key] = val: a present key keeps its place, a new one goes last.
DictSet(d, key, val) ==
    IF DictHas(d, key)
    THEN [d EXCEPT ![DictPos(d, key)] = [k |-> key, v |-> val]]
    ELSE Append(d, [k |-> key, v |-> val])

---------------------------------------------------------------------------
(* generate_repo.py: configuration                                         *)

SUPPORTED_ARCHES ==
    { <<"a", "l", "l">>, <<"a", "r", "m">>, <<"i", "6", "8", "6">>,
      <<"a", "a", "r", "c", "h", "6", "4">>, <<"x", "8", "6", "_", "6", "4">>,
      <<"a", "r", "m", "6", "4">>, <<"a", "m", "d", "6", "4">> }

HASHES == << "md5", "sha256" >>

LARGE_FILE_THRESHOLD == 94371840

hash_label(algo) == IF algo = "md5" THEN <<"MD5Sum">> ELSE <<"SHA256">>

\* hash_file(path, algo): the digest of the file's bytes; data names the bytes.
hash_file(f, algo) == << algo, "(", f.data, ")" >>

\* control_file_contents(debfile): ar t, the choice of the control member,
\* ar p | tar -x.  ok = FALSE is the None the code returns.
control_file_contents(f) ==
    IF ~ f.ar.listable THEN [ok |-> FALSE, text |-> << >>]
    ELSE IF {"control.tar.gz", "control.tar.xz", "control.tar.zst"}
              \cap f.ar.members = {}
    THEN [ok |-> FALSE, text |-> << >>]
    ELSE IF ~ f.ar.extractable THEN [ok |-> FALSE, text |-> << >>]
    ELSE [ok |-> TRUE, text |-> f.ar.control]

\* One step of parse_control's loop; st = [info, current_key].  The empty
\* current_key stands for None and for "": the code's test is its truth.
parse_line(st, line) ==
    IF line # << >> /\ line[1] \in {" ", "\t"}
    THEN IF st.current_key # << >>
         THEN [st EXCEPT !.info =
                  DictSet(st.info, st.current_key,
                          DictAt(st.info, st.current_key) \o <<"\n">> \o line)]
         ELSE st
    ELSE IF IndexOf(line, ": ") # 0
    THEN LET i   == IndexOf(line, ": ")
             key == strip(SubSeq(line, 1, i - 1))
             val == strip(SubSeq(line, i + 1, Len(line)))
         IN  [info |-> DictSet(st.info, key, val), current_key |-> key]
    ELSE st

RECURSIVE parse_lines(_, _)
parse_lines(st, lines) ==
    IF lines = << >> THEN st
    ELSE parse_lines(parse_line(st, lines[1]), Tail(lines))

parse_control(text) ==
    parse_lines([info |-> << >>, current_key |-> << >>],
                splitlines(text)).info

---------------------------------------------------------------------------
(* The file system: archives, the pool, the registry                       *)

\* Bounds of the model.
MaxMtime == 2

MaxPool == 2

MaxCalls == 2

MaxInput == 2

MaxAdds == 3

MaxLines == 3

\* The control texts of the archives the model draws from.
CtlMic1 ==
    << "Package", ": ", "M", "i", "c", "\n",
       "Version", ": ", "1", "\n",
       "Architecture", ": ", "a", "a", "r", "c", "h", "6", "4", "\n",
       "Filename", ": ", "evil", "\n",
       "X-Extra", ": ", "e", "\n",
       "Description", ": ", "short", "\n",
       " ", "more" >>

CtlMic2 ==
    << "Size", ": ", "0", "\n",
       "Version", ": ", "2", "\n",
       "Package", ": ", "M", "i", "c", "\n",
       "MD5sum", ": ", "bogus", "\n",
       "Architecture", ": ", "a", "r", "m", "6", "4" >>

CtlNop ==
    << " ", "stray", "\n",
       "Version", ": ", "1", "\n",
       "junk" >>

CtlMips ==
    << "Package", ": ", "m", "i", "p", "\n",
       "Architecture", ": ", "m", "i", "p", "s" >>

GoodAr(members, control) ==
    [listable |-> TRUE, members |-> members, extractable |-> TRUE,
     control |-> control]

\* The archives: file name, size, bytes (data) and what ar and tar find.
Mic1 ==
    [name |-> <<"M", "i", "c", "_", "1", ".deb">>, size |-> 10, data |-> "mic1",
     ar |-> GoodAr({"debian-binary", "control.tar.gz", "data.tar.gz"}, CtlMic1)]

Mic2 ==
    [name |-> <<"M", "i", "c", "_", "2", ".deb">>, size |-> LARGE_FILE_THRESHOLD,
     data |-> "mic2",
     ar |-> GoodAr({"debian-binary", "control.tar.xz", "data.tar.xz"}, CtlMic2)]

Nop1 ==
    [name |-> <<"n", "o", "p", "_", "1", ".deb">>, size |-> LARGE_FILE_THRESHOLD - 1,
     data |-> "nop1",
     ar |-> GoodAr({"debian-binary", "control.tar.zst", "data.tar.zst"}, CtlNop)]

Mips1 ==
    [name |-> <<"m", "i", "p", "_", "1", ".deb">>, size |-> 20, data |-> "mips1",
     ar |-> GoodAr({"debian-binary", "control.tar.gz", "data.tar.gz"}, CtlMips)]

\* A truncated copy of Mic_1.deb: ar cannot list it.
Trunc ==
    [name |-> <<"M", "i", "c", "_", "1", ".deb">>, size |-> 5, data |-> "trunc",
     ar |-> [listable |-> FALSE, members |-> {}, extractable |-> FALSE,
             control |-> << >>]]

\* An archive without a control member.
NoMember ==
    [name |-> <<"B", "a", "d", "_", "1", ".deb">>, size |-> 30, data |-> "nomember",
     ar |-> [listable |-> TRUE, members |-> {"debian-binary", "data.tar.gz"},
             extractable |-> TRUE, control |-> << >>]]

\* An archive without a name before the underscore, and unreadable.
NoName ==
    [name |-> <<"_", "1", ".deb">>, size |-> 40, data |-> "noname",
     ar |-> [listable |-> FALSE, members |-> {}, extractable |-> FALSE,
             control |-> << >>]]

\* An archive whose control member tar cannot extract.
NoExtract ==
    [name |-> <<"M", "i", "c", "_", "3", ".deb">>, size |-> LARGE_FILE_THRESHOLD + 1,
     data |-> "noextract",
     ar |-> [listable |-> TRUE, members |-> {"debian-binary", "control.tar.zst"},
             extractable |-> FALSE, control |-> CtlMic1]]

Archives == { Mic1, Mic2, Nop1, Mips1, Trunc, NoMember, NoExtract }

\* Pool directories, relative to pool/main: flat, bucket, bucket/package.
DirFlat == << >>

DirBucket == << <<"m">> >>

DirPackage == << <<"m">>, <<"M", "i", "c">> >>

PoolDirs == { DirFlat, DirBucket, DirPackage }

\* A file of the pool: an archive in a directory, with its modification time.
PoolFile(a, dir, mtime) ==
    [dir |-> dir, name |-> a.name, size |-> a.size, mtime |-> mtime,
     data |-> a.data, ar |-> a.ar]

\* Where the model puts the archives: Mic_1 in every layout, the others in
\* one directory each, most of them beside Mic_1 in the package folder.
Placements ==
    { <<Mic1, DirFlat>>, <<Mic1, DirBucket>>, <<Mic1, DirPackage>>,
      <<Mic2, DirPackage>>, <<Nop1, DirPackage>>, <<NoExtract, DirPackage>>,
      <<Mips1, DirBucket>>, <<Trunc, DirBucket>>, <<NoMember, DirFlat>> }

PoolFiles == { PoolFile(pl[1], pl[2], m) : pl \in Placements, m \in 1..MaxMtime }

\* A directory tree holds one file per path.
IsTree(files) ==
    \A f, g \in files : (f.dir = g.dir /\ f.name = g.name) => f = g

---------------------------------------------------------------------------
(* generate_repo.py: the pool scanner and the pruning pass                 *)

\* deb.relative_to(pool_dir).parts
parts(f) == Append(f.dir, f.name)

\* Path.__lt__: the parts compared in turn, each as a string.
RECURSIVE PartsLess(_, _)
PartsLess(a, b) ==
    IF b = << >> THEN FALSE
    ELSE IF a = << >> THEN TRUE
    ELSE IF a[1] = b[1] THEN PartsLess(Tail(a), Tail(b))
    ELSE StrLess(a[1], b[1])

\* sorted(...) of a set of paths.
RECURSIVE sorted(_)
sorted(files) ==
    IF files = {} THEN << >>
    ELSE LET f == CHOOSE x \in files :
                    \A y \in files \ {x} : PartsLess(parts(x), parts(y))
         IN  << f >> \o sorted(files \ {f})

\* glob.glob(pool_dir/**/*.deb, recursive=True), sorted (lines 236-238, 258-260).
deb_files(pool) == sorted(pool)

\* pkg_dir.glob('*.deb'), sorted (line 250).
all_debs(pool, pkg_dir) == sorted({ f \in pool : f.dir = pkg_dir })

\* The key of line 253.
mtime_key(f) == f.mtime

\* list.sort(key=...): a stable sort, here by insertion from the left.
RECURSIVE insert_by_key(_, _)
insert_by_key(s, f) ==
    IF s = << >> THEN << f >>
    ELSE IF mtime_key(Last(s)) <= mtime_key(f) THEN Append(s, f)
    ELSE Append(insert_by_key(Front(s), f), Last(s))

RECURSIVE sort_by_key(_)
sort_by_key(s) ==
    IF s = << >> THEN << >>
    ELSE insert_by_key(sort_by_key(Front(s)), Last(s))

\* As old_debs, but unlinking all but the first of the sorted list.
old_debs_but_first(pool, pkg_dir) ==
    LET debs == all_debs(pool, pkg_dir) IN
    IF Len(debs) > 1 THEN Range(Tail(sort_by_key(debs))) ELSE {}

\* The archives lines 249-256 unlink in one package folder: all but the last.
old_debs(pool, pkg_dir) ==
    LET debs == all_debs(pool, pkg_dir) IN
    IF Len(debs) > 1 THEN Range(Front(sort_by_key(debs))) ELSE {}

\* The pool after the pruning pass (lines 246-256).
prune(pool) ==
    pool \ UNION { old_debs(pool, d) : d \in { f.dir : f \in pool } }

\* As refreshed_deb_files, but the list globbed before the pruning, the scan
\* running ahead of the unlinks.
deb_files_before_pruning(before, after) == deb_files(before)

\* The list the scan loop runs over: the glob repeated after the pruning
\* (lines 258-260).
refreshed_deb_files(before, after) == deb_files(after)

---------------------------------------------------------------------------
(* generate_repo.py: build_packages                                        *)

PRIORITY_KEYS ==
    << <<"Package">>, <<"Version">>, <<"Architecture">>, <<"Maintainer">>,
       <<"Installed-Size">>, <<"Depends">>, <<"Pre-Depends">>, <<"Recommends">>,
       <<"Suggests">>, <<"Conflicts">>, <<"Breaks">>, <<"Replaces">>,
       <<"Provides">>, <<"Homepage">>, <<"Description">> >>

\* As COMPUTED, but without Filename.
COMPUTED_without_filename ==
    { <<"Size">>, <<"MD5Sum">>, <<"SHA256">>, <<"MD5sum">>, <<"SHA1">>,
      <<"SHA512">> }

COMPUTED ==
    { <<"Filename">>, <<"Size">>, <<"MD5Sum">>, <<"SHA256">>, <<"MD5sum">>,
      <<"SHA1">>, <<"SHA512">> }

\* f"{key}: {val}"
field_line(key, val) == key \o <<": ">> \o val

\* Lines 308-311 (and 370-373): the priority keys the record has, in order.
RECURSIVE priority_lines(_, _)
priority_lines(info, keys) ==
    IF keys = << >> THEN << >>
    ELSE (IF DictHas(info, keys[1])
          THEN << field_line(keys[1], DictAt(info, keys[1])) >>
          ELSE << >>)
         \o priority_lines(info, Tail(keys))

\* Lines 312-314 (and 374-376): the record's other fields, in its own order.
RECURSIVE other_lines(_, _)
other_lines(items, added) ==
    IF items = << >> THEN << >>
    ELSE (IF items[1].k \notin added /\ items[1].k \notin COMPUTED
          THEN << field_line(items[1].k, items[1].v) >>
          ELSE << >>)
         \o other_lines(Tail(items), added)

metadata_lines(info) ==
    priority_lines(info, PRIORITY_KEYS)
      \o other_lines(info, { k \in Range(PRIORITY_KEYS) : DictHas(info, k) })

\* deb.stem: the name without its suffix.
stem(name) == IF name # << >> /\ Last(name) = ".deb" THEN Front(name) ELSE name

\* As arch_supported, but with the test of line 288 left out.
arch_supported_any(pkg_arch) == TRUE

\* Line 288.
arch_supported(pkg_arch) == pkg_arch \in SUPPORTED_ARCHES

\* The truth of release_urls: None and the empty mapping are false.
urls_given(release_urls) == ~ release_urls.none /\ release_urls.map # << >>

\* Line 297: is_large and release_urls and deb.name in release_urls.
use_release_url(f, release_urls) ==
    /\ f.size >= LARGE_FILE_THRESHOLD
    /\ urls_given(release_urls)
    /\ DictHas(release_urls.map, f.name)

\* The value of the same expression at line 337, as json.dumps writes it.
release_flag(f, release_urls) ==
    IF f.size < LARGE_FILE_THRESHOLD THEN "false"
    ELSE IF release_urls.none THEN "null"
    ELSE IF release_urls.map = << >> THEN "{}"
    ELSE IF DictHas(release_urls.map, f.name) THEN "true" ELSE "false"

\* Lines 293-303.
filename_path(f, release_urls) ==
    IF use_release_url(f, release_urls)
    THEN DictAt(release_urls.map, f.name)
    ELSE <<"pool/main/">> \o join(parts(f), <<"/">>)

\* info.get('Description', '').split('\n')[0]
first_line(info) == split(DictGet(info, <<"Description">>, << >>), "\n")[1]

\* folder_map.setdefault(letter, {}).setdefault(pkgdir, []).append(item)
folder_add(folder_map, letter, pkgdir, item) ==
    LET inner == DictGet(folder_map, letter, << >>)
        items == DictGet(inner, pkgdir, << >>)
    IN  DictSet(folder_map, letter, DictSet(inner, pkgdir, Append(items, item)))

\* One pass of the scan loop (lines 274-338); acc = [entries, folder_map,
\* encountered_arches].  An entry keeps, beside its text, where it came from.
scan_step(acc, f, release_urls) ==
    LET ctrl     == control_file_contents(f)
        info     == parse_control(ctrl.text)
        pkg_name == DictGet(info, <<"Package">>, split(stem(f.name), "_")[1])
        pkg_ver  == DictGet(info, <<"Version">>, << >>)
        pkg_arch == DictGet(info, <<"Architecture">>,
                            <<"a", "a", "r", "c", "h", "6", "4">>)
        path     == filename_path(f, release_urls)
        block    == metadata_lines(info)
                      \o << field_line(<<"Filename">>, path),
                            field_line(<<"Size">>, << ToString(f.size) >>) >>
                      \o [i \in DOMAIN HASHES |->
                            field_line(hash_label(HASHES[i]),
                                       hash_file(f, HASHES[i]))]
        p        == parts(f)
        letter   == IF Len(p) >= 2 THEN p[1]
                    ELSE IF pkg_name # << >> THEN << lower(pkg_name[1]) >>
                    ELSE <<".">>
        pkgdir   == IF Len(p) >= 3 THEN p[2] ELSE pkg_name
        item     == [name |-> f.name, path |-> path, size |-> f.size,
                     package |-> pkg_name, version |-> pkg_ver,
                     desc |-> first_line(info),
                     release |-> release_flag(f, release_urls)]
    IN  IF ~ ctrl.ok THEN acc
        ELSE IF ~ arch_supported(pkg_arch) THEN acc
        ELSE [entries |-> Append(acc.entries,
                  [origin |-> "pool", file |-> f.name, dir |-> f.dir,
                   package |-> pkg_name, arch |-> pkg_arch,
                   text |-> join(block, <<"\n">>)]),
              folder_map |-> folder_add(acc.folder_map, letter, pkgdir, item),
              encountered_arches |-> acc.encountered_arches \cup {pkg_arch}]

RECURSIVE scan_loop(_, _, _)
scan_loop(acc, debs, release_urls) ==
    IF debs = << >> THEN acc
    ELSE scan_loop(scan_step(acc, debs[1], release_urls), Tail(debs),
                   release_urls)

\* x or y, for texts: the empty text is false.
or_else(x, y) == IF x # << >> THEN x ELSE y

\* One pass of the release.json loop (lines 342-398).  A key the entry lacks
\* reads as the default of its re.get: the empty text, or 0 for the size.
release_step(acc, re) ==
    LET info     == IF re.control # << >> THEN parse_control(re.control)
                    ELSE << >>
        pkg_name == or_else(re.package,
                            DictGet(info, <<"Package">>, split(re.file, "_")[1]))
        pkg_ver  == or_else(re.version, DictGet(info, <<"Version">>, << >>))
        pkg_arch == or_else(re.arch,
                            DictGet(info, <<"Architecture">>, <<"a", "l", "l">>))
        block    == (IF re.control # << >>
                     THEN metadata_lines(parse_control(re.control))
                     ELSE << field_line(<<"Package">>, pkg_name),
                             field_line(<<"Version">>, pkg_ver),
                             field_line(<<"Architecture">>, pkg_arch) >>)
                      \o << field_line(<<"Filename">>, re.url),
                            field_line(<<"Size">>, << ToString(re.size) >>),
                            field_line(<<"MD5Sum">>, re.md5),
                            field_line(<<"SHA256">>, re.sha256) >>
        letter   == IF pkg_name # << >> THEN << lower(pkg_name[1]) >> ELSE <<"z">>
        item     == [name |-> re.file, path |-> re.url, size |-> re.size,
                     package |-> pkg_name, version |-> pkg_ver,
                     desc |-> first_line(info), release |-> "true"]
    IN  IF re.url = << >> THEN acc
        ELSE [entries |-> Append(acc.entries,
                  [origin |-> "release", file |-> re.file, dir |-> << >>,
                   package |-> pkg_name, arch |-> pkg_arch,
                   text |-> join(block, <<"\n">>)]),
              folder_map |-> folder_add(acc.folder_map, letter, pkg_name, item),
              encountered_arches |-> acc.encountered_arches \cup {pkg_arch}]

RECURSIVE release_loop(_, _)
release_loop(acc, release_entries) ==
    IF release_entries = << >> THEN acc
    ELSE release_loop(release_step(acc, release_entries[1]),
                      Tail(release_entries))

\* load_release_json: the list release.json holds.
load_release_json(release_json) == release_json

\* What release.json may hold beside a list of entries: no file; text that is
\* no JSON; a number or null; an empty object or string; an object with keys
\* or a string with characters; a list of numbers.
Shapes ==
    { "list", "absent", "unparseable", "number", "empty", "strings", "scalars" }

\* load_release_json on each of them (lines 155-165): no file, a parse error
\* and the len() of a number give [], anything else is returned as parsed.
load_release_json_shape(shape) ==
    IF shape \in {"absent", "unparseable", "number"} THEN "list" ELSE shape

\* for re in release_entries: re.get(...)  (lines 342-343) raises on the
\* first element that is no object.
release_loop_raises(shape) == shape \in {"strings", "scalars"}

\* '\n\n'.join(entries) + ('\n' if entries else '')  (line 401)
packages_content(entries) ==
    join([i \in DOMAIN entries |-> entries[i].text], <<"\n", "\n">>)
      \o (IF entries # << >> THEN <<"\n">> ELSE << >>)

\* What build_packages computes from the pool, release.json and release_urls.
build_result(pool0, release_json, release_urls) ==
    LET pruned  == prune(pool0)
        scanned == scan_loop([entries |-> << >>, folder_map |-> << >>,
                              encountered_arches |-> {}],
                             refreshed_deb_files(pool0, pruned), release_urls)
        all     == release_loop(scanned, load_release_json(release_json))
    IN  [pool |-> pruned, entries |-> all.entries,
         folder_map |-> all.folder_map,
         encountered_arches |-> all.encountered_arches]

---------------------------------------------------------------------------
(* generate_repo.py: add_to_release_json, build_release, import_debs,      *)
(* cleanup_large_files                                                      *)

\* The entry add_to_release_json writes for an archive (lines 179-197).
new_entry(f, url) ==
    LET ctrl == control_file_contents(f)
        info == IF ctrl.ok /\ ctrl.text # << >> THEN parse_control(ctrl.text)
                ELSE << >>
    IN  [file    |-> f.name,
         url     |-> url,
         size    |-> f.size,
         md5     |-> hash_file(f, "md5"),
         sha256  |-> hash_file(f, "sha256"),
         package |-> DictGet(info, <<"Package">>, split(stem(f.name), "_")[1]),
         version |-> DictGet(info, <<"Version">>, << >>),
         arch    |-> DictGet(info, <<"Architecture">>, <<"a", "l", "l">>),
         control |-> IF ctrl.ok THEN ctrl.text ELSE << >>]

\* An entry written by hand in the format load_release_json documents
\* (lines 144-153): file, url, size, md5, sha256 and nothing else.
hand_entry(name, url, size) ==
    [file |-> name, url |-> url, size |-> size,
     md5 |-> <<"md5", "(", "remote", ")">>,
     sha256 |-> <<"sha256", "(", "remote", ")">>,
     package |-> << >>, version |-> << >>, arch |-> << >>, control |-> << >>]

\* As replace_or_append, but dropping the old entry and appending the new one.
replace_at_end(data, entry) ==
    LET keep == { i \in DOMAIN data : data[i].file # entry.file }
        F[i \in 0 .. Len(data)] ==
            IF i = 0 THEN << >>
            ELSE IF i \in keep THEN Append(F[i - 1], data[i]) ELSE F[i - 1]
    IN  Append(F[Len(data)], entry)

\* Lines 206-215: the first entry of the same file is replaced where it
\* stands, or the entry is appended.
replace_or_append(data, entry) ==
    IF \E i \in DOMAIN data : data[i].file = entry.file
    THEN LET i == CHOOSE k \in DOMAIN data :
                    /\ data[k].file = entry.file
                    /\ \A j \in 1 .. (k - 1) : data[j].file # entry.file
         IN  [data EXCEPT ![i] = entry]
    ELSE Append(data, entry)

\* Lines 199-215 on what release.json holds: a parse error gives [], but
\* enumerate() of a number, e.get of a string or number, and append on an
\* empty object or string raise.
add_raises(shape) == shape \in {"number", "empty", "strings", "scalars"}

\* The URL fetch_release_urls builds for an asset of a release (line 127).
asset_url(tag, name) ==
    <<"https://github.com/devjhr/pkg-repo/releases/download/", tag, "/">> \o name

\* gzip.open(pkggz, 'wb', compresslevel=9) of the index (lines 406-407).
gzip(text) == <<"gzip9">> \o text

\* hash_file of an output file.
hash_text(text, algo) == << algo, "(" >> \o text \o << ")" >>

\* ' '.join(sorted(arches)) if arches else 'aarch64'  (line 422)
RECURSIVE sorted_strs(_)
sorted_strs(S) ==
    IF S = {} THEN << >>
    ELSE LET a == CHOOSE x \in S : \A y \in S \ {x} : StrLess(x, y)
         IN  << a >> \o sorted_strs(S \ {a})

arch_str(arches) ==
    IF arches # {} THEN join(sorted_strs(arches), <<" ">>)
    ELSE <<"a", "a", "r", "c", "h", "6", "4">>

\* The number of decimal digits of n.
RECURSIVE digits(_)
digits(n) == IF n < 10 THEN 1 ELSE 1 + digits(n \div 10)

\* f"{size:>10}": the number, right-aligned in ten columns.
right_aligned(n) ==
    [i \in 1..(IF digits(n) < 10 THEN 10 - digits(n) ELSE 0) |-> " "]
      \o << ToString(n) >>

\* One file's line of a checksum section (lines 437-441); the size of an
\* output file is the length of its text.
sum_line(text, rel, algo) ==
    << " " >> \o hash_text(text, algo) \o << " " >> \o right_aligned(Len(text))
      \o << " ", rel >>

\* The text build_release writes (lines 424-443).
release_text(now, arches, pkg_text, gz_text) ==
    join(<< <<"Origin: AndroStudio">>,
            <<"Label: AndroStudio Package Repository">>,
            <<"Suite: stable">>,
            <<"Codename: stable">>,
            <<"Date", ": ", ToString(now)>>,
            <<"Architectures", ": ">> \o arch_str(arches),
            <<"Components: main">>,
            <<"Description: Official AndroStudio terminal package repository">>,
            hash_label("md5") \o <<":">>,
            sum_line(pkg_text, "main/binary-aarch64/Packages", "md5"),
            sum_line(gz_text, "main/binary-aarch64/Packages.gz", "md5"),
            hash_label("sha256") \o <<":">>,
            sum_line(pkg_text, "main/binary-aarch64/Packages", "sha256"),
            sum_line(gz_text, "main/binary-aarch64/Packages.gz", "sha256") >>,
         <<"\n">>) \o <<"\n">>

\* As is_large, but with a strict comparison.
is_large_strict(f) == f.size > LARGE_FILE_THRESHOLD

\* Line 541.
is_large(f) == f.size >= LARGE_FILE_THRESHOLD

\* The pool cleanup_large_files leaves (lines 536-553).  Directories are the
\* directories of the pool's files, so the rmdir of lines 548-552 shows as the
\* directory having no file.
cleaned(pool0) == { f \in pool0 : ~ is_large(f) }

\* import_debs, lines 456-461: the package name of a source archive.
import_pkgname(deb) ==
    LET ctrl == control_file_contents(deb) IN
    IF ctrl.ok /\ ctrl.text # << >>
    THEN DictGet(parse_control(ctrl.text), <<"Package">>,
                 split(stem(deb.name), "_")[1])
    ELSE split(stem(deb.name), "_")[1]

\* Lines 463-464: pool_dir / letter / pkgname.
target_dir(pkgname) == << << lower(pkgname[1]) >>, pkgname >>

\* As existing, but finding nothing to remove.
existing_none(pool0, dir, name) == {}

\* Line 469: the other archives of the target directory.
existing(pool0, dir, name) == { f \in pool0 : f.dir = dir /\ f.name # name }

\* Line 476: the same file is already there.
same_file_exists(pool0, dir, deb) ==
    \E f \in pool0 : f.dir = dir /\ f.name = deb.name /\ f.size = deb.size

\* One pass of the import loop (lines 455-484); st = [pool, copied, skipped,
\* replaced, crashed].  pkgname[0] of an empty name raises IndexError, which
\* ends the run where it stands.
import_step(st, deb) ==
    LET pkgname == import_pkgname(deb)
        dir     == target_dir(pkgname)
        old     == existing(st.pool, dir, deb.name)
        kept    == st.pool \ old
    IN  IF st.crashed THEN st
        ELSE IF pkgname = << >> THEN [st EXCEPT !.crashed = TRUE]
        ELSE IF same_file_exists(kept, dir, deb)
        THEN [st EXCEPT !.pool = kept,
                        !.replaced = st.replaced + Cardinality(old),
                        !.skipped = st.skipped + 1]
        ELSE [st EXCEPT !.pool = { f \in kept : ~ (f.dir = dir /\ f.name = deb.name) }
                                   \cup { PoolFile(deb, dir, deb.mtime) },
                        !.replaced = st.replaced + Cardinality(old),
                        !.copied = st.copied + 1]

RECURSIVE import_loop(_, _)
import_loop(st, debs) ==
    IF debs = << >> THEN st
    ELSE import_loop(import_step(st, debs[1]), Tail(debs))

\* sorted(Path(input_path).glob('*.deb'))  (line 450)
source_debs(input) == sorted(input)

import_result(pool0, input) ==
    import_loop([pool |-> pool0, copied |-> 0, skipped |-> 0, replaced |-> 0,
                 crashed |-> FALSE],
                source_debs(input))

---------------------------------------------------------------------------
(* The state: the repository's files and what the last call did            *)

VARIABLES
    pool,          \* pool/main: the set of archive files
    inputDir,      \* the --input folder: the set of archive files to import
    releaseUrls,   \* the release_urls argument of build_packages
    releaseJson,   \* release.json: the list of registered entries
    packages,      \* dists/stable/main/binary-aarch64/Packages
    packagesGz,    \* dists/stable/main/binary-aarch64/Packages.gz
    packagesJson,  \* packages.json
    releaseFile,   \* dists/stable/Release
    entries,       \* build_packages' list of entries, each with its origin
    arches,        \* the architectures build_packages returned
    counters,      \* import_debs' copied / skipped / replaced, and its outcome
    lastOp,        \* the last call
    prevOp,        \* the call before it
    removed,       \* how many archives the last call took out of the pool
    prevRemoved,   \* how many the call before it took out
    pre,           \* the files as they were before the last call
    calls,         \* the number of calls so far
    store,         \* what the file release.json holds: a list of entries or not
    args,          \* the arguments of the last call, where the model draws them
    returned       \* how the last call ended, and the value it returned

vars ==
    << pool, inputDir, releaseUrls, releaseJson, packages, packagesGz,
       packagesJson, releaseFile, entries, arches, counters, lastOp, prevOp,
       removed, prevRemoved, pre, calls, store, args, returned >>

\* The sets of at most n elements of S.
RECURSIVE SetsUpTo(_, _)
SetsUpTo(S, n) ==
    IF n = 0 THEN { {} }
    ELSE LET P == SetsUpTo(S, n - 1) IN P \cup { p \cup {x} : p \in P, x \in S }

Pools == { p \in SetsUpTo(PoolFiles, MaxPool) : IsTree(p) }

\* release_urls: None, the empty mapping main passes without --release, and
\* the mapping fetch_release_urls returns for a release holding Mic_2.deb.
UrlArgs ==
    { [none |-> TRUE, map |-> << >>],
      [none |-> FALSE, map |-> << >>],
      [none |-> FALSE,
       map |-> << [k |-> Mic2.name, v |-> asset_url("v1", Mic2.name)] >>] }

RemoteName == <<"B", "i", "g", "_", "1", ".deb">>

\* release.json: absent or empty; one registered archive; a registered archive
\* without Package in its control text and a hand-written entry; an entry
\* without url and one with.
RegistryStates ==
    { << >>,
      << new_entry(PoolFile(Mic2, DirFlat, 1), asset_url("v0", Mic2.name)) >>,
      << new_entry(PoolFile(Nop1, DirFlat, 1), asset_url("v0", Nop1.name)),
         hand_entry(RemoteName, asset_url("v0", RemoteName), LARGE_FILE_THRESHOLD) >>,
      << hand_entry(Mic1.name, << >>, 10),
         hand_entry(RemoteName, asset_url("v0", RemoteName), LARGE_FILE_THRESHOLD) >> }

Absent == [exists |-> FALSE, text |-> << >>]

File(text) == [exists |-> TRUE, text |-> text]

Snapshot ==
    [pool |-> pool, releaseJson |-> releaseJson, packages |-> packages,
     packagesGz |-> packagesGz, packagesJson |-> packagesJson,
     releaseFile |-> releaseFile, store |-> store]

NoCounters == [copied |-> 0, skipped |-> 0, replaced |-> 0, outcome |-> "none"]

NoArgs == [none |-> TRUE]

\* A call that returned value, and one that ended in an exception.
Returned(value) == [how |-> "returned", value |-> value]

Raised == [how |-> "raised", value |-> "none"]

InitOutputs ==
    /\ packages = Absent
    /\ packagesGz = Absent
    /\ packagesJson = Absent
    /\ releaseFile = Absent
    /\ entries = << >>
    /\ arches = {}
    /\ counters = NoCounters
    /\ lastOp = "none"
    /\ prevOp = "none"
    /\ removed = 0
    /\ prevRemoved = 0
    /\ calls = 0
    /\ args = NoArgs
    /\ returned = [how |-> "none", value |-> "none"]

Init ==
    /\ pool \in Pools
    /\ inputDir = {}
    /\ releaseUrls \in UrlArgs
    /\ releaseJson \in RegistryStates
    /\ store = "list"
    /\ InitOutputs
    /\ pre = Snapshot

Called(op) ==
    /\ calls' = calls + 1
    /\ lastOp' = op
    /\ prevOp' = lastOp
    /\ removed' = Cardinality(pool \ pool')
    /\ prevRemoved' = removed
    /\ pre' = Snapshot

\* build_packages(pool_dir, repo_root, release_urls)  (lines 226-414)
\* The pruning and the scan come first; the release.json loop raises on what
\* is no list of entries (line 343), before anything is written (lines 401-411).
BuildPackages ==
    \E r \in { build_result(pool, releaseJson, releaseUrls) } :
    /\ pool' = r.pool
    /\ IF release_loop_raises(load_release_json_shape(store))
       THEN /\ returned' = Raised
            /\ UNCHANGED << entries, packages, packagesGz, packagesJson, arches >>
       ELSE /\ entries' = r.entries
            /\ packages' = File(packages_content(r.entries))
            /\ packagesGz' = File(gzip(packages_content(r.entries)))
            /\ packagesJson' = File(r.folder_map)
            /\ arches' = r.encountered_arches
            /\ returned' = Returned("tuple")
    /\ args' = NoArgs
    /\ Called("build_packages")
    /\ UNCHANGED << inputDir, releaseUrls, releaseJson, releaseFile, counters,
                    store >>

\* build_release(repo_root, bin_dir, pkg_file, pkggz, arches)  (lines 417-444);
\* it reads the two index files, so they exist.  The clock is the call count.
BuildRelease ==
    /\ packages.exists /\ packagesGz.exists
    /\ releaseFile' = File(release_text(calls + 1, arches, packages.text,
                                        packagesGz.text))
    /\ UNCHANGED << pool, inputDir, releaseUrls, releaseJson, packages,
                    packagesGz, packagesJson, entries, arches, counters, store >>
    /\ args' = NoArgs
    /\ returned' = Returned("None")
    /\ Called("build_release")

\* cleanup_large_files(pool_dir)  (lines 530-558)
CleanupLargeFiles ==
    /\ pool' = cleaned(pool)
    /\ args' = NoArgs
    /\ returned' = Returned(Cardinality(pool \ cleaned(pool)))
    /\ Called("cleanup_large_files")
    /\ UNCHANGED << inputDir, releaseUrls, releaseJson, packages, packagesGz,
                    packagesJson, releaseFile, entries, arches, counters, store >>

\* import_debs(input_path, pool_dir)  (lines 447-486); an input folder without
\* archives ends the run at line 452.
ImportDebs ==
    \E r \in { import_result(pool, inputDir) } :
    /\ IF inputDir = {}
       THEN /\ pool' = pool
            /\ counters' = [NoCounters EXCEPT !.outcome = "exit"]
       ELSE /\ pool' = r.pool
            /\ counters' = [copied |-> r.copied, skipped |-> r.skipped,
                            replaced |-> r.replaced,
                            outcome |-> IF r.crashed THEN "crashed"
                                        ELSE "completed"]
    /\ args' = NoArgs
    /\ returned' = IF inputDir = {} THEN [how |-> "exit", value |-> "none"]
                   ELSE IF r.crashed THEN Raised
                   ELSE Returned("None")
    /\ Called("import_debs")
    /\ UNCHANGED << inputDir, releaseUrls, releaseJson, packages, packagesGz,
                    packagesJson, releaseFile, entries, arches, store >>

\* The archives --add-release is called with: Mic_1.deb (whole or truncated),
\* nop_1.deb and Mic_2.deb, each present or not, and the URLs of two releases.
AddPaths == { PoolFile(a, DirFlat, 1) : a \in {Mic1, Trunc, Nop1, Mic2} }

AddTags == { "v0", "v1" }

\* add_to_release_json(repo_root, deb_path, url)  (lines 168-223)
AddToReleaseJson ==
    \E deb \in AddPaths, present \in BOOLEAN, tag \in AddTags :
    /\ args' = [none |-> FALSE, deb |-> deb, exists |-> present,
                url |-> asset_url(tag, deb.name)]
    /\ IF ~ present
       THEN /\ returned' = Returned(FALSE)
            /\ UNCHANGED << releaseJson, store >>
       ELSE IF add_raises(store)
       THEN /\ returned' = Raised
            /\ UNCHANGED << releaseJson, store >>
       ELSE /\ releaseJson' =
                  replace_or_append(releaseJson,
                                    new_entry(deb, asset_url(tag, deb.name)))
            /\ store' = "list"
            /\ returned' = Returned(TRUE)
    /\ UNCHANGED << pool, inputDir, releaseUrls, packages, packagesGz,
                    packagesJson, releaseFile, entries, arches, counters >>
    /\ Called("add_to_release_json")

\* --add-release, again and again, on a repository without release.json or
\* with an empty one.
InitRegister ==
    /\ pool = {}
    /\ inputDir = {}
    /\ releaseUrls = [none |-> FALSE, map |-> << >>]
    /\ releaseJson = << >>
    /\ store \in {"absent", "list"}
    /\ InitOutputs
    /\ pre = Snapshot

NextRegister == calls < MaxAdds /\ AddToReleaseJson

SpecRegister == InitRegister /\ [][NextRegister]_vars

\* The archives an --input folder may hold, each as downloaded (one mtime).
InputFiles == { PoolFile(a, DirFlat, 1) : a \in Archives \cup {NoName} }

Inputs == { i \in SetsUpTo(InputFiles, MaxInput) : IsTree(i) }

\* The pools an import starts from: any archives in the package folder m/Mic,
\* the target of Mic_1, Mic_2 and Mic_3.
ImportPools == { p \in Pools : \A f \in p : f.dir = DirPackage }

\* build_packages and --add-release on a repository whose release.json holds
\* anything but a list of entries.
InitCorrupt ==
    /\ pool \in ImportPools
    /\ inputDir = {}
    /\ releaseUrls = [none |-> TRUE, map |-> << >>]
    /\ releaseJson = << >>
    /\ store \in Shapes \ {"list"}
    /\ InitOutputs
    /\ pre = Snapshot

NextCorrupt == calls < MaxCalls /\ (BuildPackages \/ AddToReleaseJson)

SpecCorrupt == InitCorrupt /\ [][NextCorrupt]_vars

InitImport ==
    /\ pool \in ImportPools
    /\ inputDir \in Inputs
    /\ releaseUrls = [none |-> FALSE, map |-> << >>]
    /\ releaseJson = << >>
    /\ store = "list"
    /\ InitOutputs
    /\ pre = Snapshot

\* import_debs, called again and again on an unchanged --input folder.
NextImport == calls < MaxCalls /\ ImportDebs

SpecImport == InitImport /\ [][NextImport]_vars

\* The lines a control text is made of: a field, continuation lines after a
\* space and after a tab (the second with ": " in it), a field with an empty
\* name, a line without ": ", a field to be trimmed, the same field again,
\* and the empty line.
ControlLines ==
    { <<"Description", ": ", "short">>,
      <<" ", "more">>,
      <<"\t", "c", ": ", "d">>,
      <<": ", "v">>,
      <<"junk">>,
      <<"A", " ", ": ", " ", "1", " ">>,
      <<"A", ": ", "2">>,
      << >> }

RECURSIVE LinesUpTo(_)
LinesUpTo(n) ==
    IF n = 0 THEN { << >> }
    ELSE LinesUpTo(n - 1)
           \cup { Append(p, l) : p \in LinesUpTo(n - 1), l \in ControlLines }

\* The texts parse_control is called with: the lines, a line break after each
\* but the last.
ControlTexts == { join(p, <<"\n">>) : p \in LinesUpTo(MaxLines) }

InitParse ==
    /\ pool = {}
    /\ inputDir = {}
    /\ releaseUrls = [none |-> TRUE, map |-> << >>]
    /\ releaseJson = << >>
    /\ store = "absent"
    /\ InitOutputs
    /\ pre = Snapshot

\* parse_control(text)  (lines 93-105)
ParseControl ==
    \E text \in ControlTexts :
    /\ args' = [none |-> FALSE, text |-> text]
    /\ returned' = Returned(parse_control(text))
    /\ UNCHANGED << pool, inputDir, releaseUrls, releaseJson, packages,
                    packagesGz, packagesJson, releaseFile, entries, arches,
                    counters, store >>
    /\ Called("parse_control")

NextParse == calls < 1 /\ ParseControl

SpecParse == InitParse /\ [][NextParse]_vars

---------------------------------------------------------------------------
(* repo_manager.py: extract_deb_info and build_packages                    *)

\* ARCH  (repo_manager.py line 25)
ARCH == <<"a", "a", "r", "c", "h", "6", "4">>

\* The loop of lines 65-68: every line with ": " sets a field, name and value
\* trimmed; there are no continuation lines here.
RECURSIVE dpkg_fields(_, _)
dpkg_fields(info, lines) ==
    IF lines = << >> THEN info
    ELSE LET line == lines[1]
             i    == IndexOf(line, ": ")
         IN  dpkg_fields(IF i = 0 THEN info
                         ELSE DictSet(info, strip(SubSeq(line, 1, i - 1)),
                                      strip(SubSeq(line, i + 1, Len(line)))),
                         Tail(lines))

\* dict.setdefault
DictSetDefault(d, key, val) == IF DictHas(d, key) THEN d ELSE DictSet(d, key, val)

\* extract_deb_info(deb_path)  (lines 55-91): the fields dpkg-deb -f prints,
\* or, when dpkg-deb fails or is missing, the fields read off the file name.
extract_deb_info(deb) ==
    IF deb.dpkg.ok THEN dpkg_fields(<< >>, deb.dpkg.lines)
    ELSE LET name  == stem(deb.name)
             p     == split(name, "_")
             base  == IF Len(p) >= 3
                      THEN << [k |-> <<"Package">>, v |-> p[1]],
                              [k |-> <<"Version">>, v |-> p[2]],
                              [k |-> <<"Architecture">>, v |-> p[3]] >>
                      ELSE IF Len(p) = 2
                      THEN << [k |-> <<"Package">>, v |-> p[1]],
                              [k |-> <<"Version">>, v |-> p[2]],
                              [k |-> <<"Architecture">>, v |-> ARCH] >>
                      ELSE << [k |-> <<"Package">>, v |-> name],
                              [k |-> <<"Version">>, v |-> <<"1", ".", "0">>],
                              [k |-> <<"Architecture">>, v |-> ARCH] >>
         IN  DictSetDefault(
                 DictSetDefault(base, <<"Description">>,
                                base[1].v \o <<" ", "package">>),
                 <<"Maintainer">>,
                 <<"AndroStudio <repo@androstudio.dev>">>)

\* The keys of lines 117-120.
REQUIRED_FIRST ==
    << <<"Package">>, <<"Version">>, <<"Architecture">>, <<"Maintainer">>,
       <<"Installed-Size">>, <<"Depends">>, <<"Pre-Depends">>, <<"Conflicts">>,
       <<"Breaks">>, <<"Replaces">>, <<"Provides">>, <<"Homepage">>,
       <<"Description">> >>

\* skip  (lines 130-133)
skip ==
    Range(REQUIRED_FIRST)
      \cup { <<"Filename">>, <<"Size">>, <<"SHA256">>, <<"MD5sum">> }

\* Lines 134-136: the fields not in skip, in the record's order.
RECURSIVE remaining_lines(_)
remaining_lines(items) ==
    IF items = << >> THEN << >>
    ELSE (IF items[1].k \notin skip
          THEN << field_line(items[1].k, items[1].v) >>
          ELSE << >>)
         \o remaining_lines(Tail(items))

\* "pool/main/" + str(deb.relative_to(POOL_DIR))  (line 108)
rel_path(deb) == <<"pool/main/">> \o join(parts(deb), <<"/">>)

\* The block of one archive (lines 114-138): the required fields, the
\* computed fields, the remaining fields.
block_lines(deb) ==
    LET info == extract_deb_info(deb) IN
    priority_lines(info, REQUIRED_FIRST)
      \o << field_line(<<"Filename">>, rel_path(deb)),
            field_line(<<"Size">>, << ToString(deb.size) >>),
            field_line(<<"SHA256">>, hash_file(deb, "sha256")) >>
      \o remaining_lines(info)

\* Lines 105-138: an entry per archive, with the archive it is of.
manager_entries(debs) ==
    [i \in DOMAIN debs |->
        [origin |-> "pool", file |-> debs[i].name, dir |-> debs[i].dir,
         package |-> DictGet(extract_deb_info(debs[i]), <<"Package">>, << >>),
         arch |-> DictGet(extract_deb_info(debs[i]), <<"Architecture">>, << >>),
         text |-> join(block_lines(debs[i]), <<"\n">>)]]

\* Lines 150-163: packages.json, a list of items per first-level folder.
RECURSIVE manager_folder_map(_, _)
manager_folder_map(folder_map, debs) ==
    IF debs = << >> THEN folder_map
    ELSE LET deb    == debs[1]
             inf    == extract_deb_info(deb)
             folder == IF Len(parts(deb)) > 1 THEN parts(deb)[1] ELSE <<".">>
             item   == [name |-> deb.name, path |-> rel_path(deb),
                        size |-> deb.size,
                        package |-> DictGet(inf, <<"Package">>,
                                            split(stem(deb.name), "_")[1]),
                        version |-> DictGet(inf, <<"Version">>, << >>),
                        desc |-> first_line(inf)]
         IN  manager_folder_map(
                 DictSet(folder_map, folder,
                         Append(DictGet(folder_map, folder, << >>), item)),
                 Tail(debs))

\* What dpkg-deb -f prints, line by line: fields of the required list, fields
\* outside it, fields named as the computed ones, and continuation lines.
DpkgLines ==
    { <<"Package", ": ", "M", "i", "c">>,
      <<"Description", ": ", "short">>,
      <<" ", "more">>,
      <<" ", "c", ": ", "d">>,
      <<"Recommends", ": ", "x">>,
      <<"X-Extra", ": ", "e">>,
      <<"Filename", ": ", "evil">>,
      <<"MD5sum", ": ", "bogus">>,
      <<"SHA256", " ", ": ", "bogus">> }

RECURSIVE DpkgOutputs(_)
DpkgOutputs(n) ==
    IF n = 0 THEN { << >> }
    ELSE DpkgOutputs(n - 1)
           \cup { Append(p, l) : p \in DpkgOutputs(n - 1), l \in DpkgLines }

\* File names with two parts, three parts and one.
ManagerNames ==
    { <<"M", "i", "c", "_", "1", ".deb">>,
      <<"M", "i", "c", "_", "1", "_", "a", "l", "l", ".deb">>,
      <<"M", "i", "c", ".deb">> }

\* The archives repo_manager finds in its pool: dpkg-deb prints their fields,
\* or fails.
ManagerArchives ==
    { [name |-> n, dir |-> d, size |-> 10, data |-> "mic", mtime |-> 1,
       dpkg |-> [ok |-> TRUE, lines |-> out]] :
          n \in {<<"M", "i", "c", "_", "1", ".deb">>}, d \in {DirFlat, DirBucket},
          out \in DpkgOutputs(MaxLines) }
      \cup
    { [name |-> n, dir |-> d, size |-> 10, data |-> "mic", mtime |-> 1,
       dpkg |-> [ok |-> FALSE, lines |-> << >>]] :
          n \in ManagerNames, d \in {DirFlat, DirBucket} }

InitManager ==
    /\ pool \in { {a} : a \in ManagerArchives } \cup { {} }
    /\ inputDir = {}
    /\ releaseUrls = [none |-> TRUE, map |-> << >>]
    /\ releaseJson = << >>
    /\ store = "absent"
    /\ InitOutputs
    /\ pre = Snapshot

\* repo_manager.build_packages()  (lines 94-167)
ManagerBuildPackages ==
    \E debs \in { sorted(pool) } :
    /\ entries' = manager_entries(debs)
    /\ packages' = File(packages_content(manager_entries(debs)))
    /\ packagesJson' = File(manager_folder_map(<< >>, debs))
    /\ args' = NoArgs
    /\ returned' = Returned(packages_content(manager_entries(debs)))
    /\ UNCHANGED << pool, inputDir, releaseUrls, releaseJson, packagesGz,
                    releaseFile, arches, counters, store >>
    /\ Called("repo_manager.build_packages")

NextManager == calls < MaxCalls /\ ManagerBuildPackages

SpecManager == InitManager /\ [][NextManager]_vars

\* The index builder, called again and again on what it left.
Next == calls < MaxCalls /\ BuildPackages

Spec == Init /\ [][Next]_vars

\* main() without --input and --add-release (lines 606-627): build_packages,
\* build_release on what it returned, cleanup_large_files.  sign_release
\* writes InRelease and Release.gpg only.
MainBuild == lastOp = "none" /\ BuildPackages

MainRelease == lastOp = "build_packages" /\ BuildRelease

MainCleanup == lastOp = "build_release" /\ CleanupLargeFiles

NextMain == MainBuild \/ MainRelease \/ MainCleanup

SpecMain == Init /\ [][NextMain]_vars

---------------------------------------------------------------------------
(* Reading the index back: the lines of an entry and their field names     *)

EntryLines(e) == split(e.text, "\n")

IsContinuation(line) == line # << >> /\ line[1] \in {" ", "\t"}

IsFieldLine(line) == ~ IsContinuation(line) /\ IndexOf(line, ": ") # 0

FieldName(line) == strip(SubSeq(line, 1, IndexOf(line, ": ") - 1))

HasField(e, name) ==
    \E i \in DOMAIN EntryLines(e) :
        IsFieldLine(EntryLines(e)[i]) /\ FieldName(EntryLines(e)[i]) = name

\* The entries the last build made for the pool file f.
PoolEntriesOf(f) ==
    { i \in DOMAIN entries :
        /\ entries[i].origin = "pool"
        /\ entries[i].file = f.name
        /\ entries[i].dir = f.dir }

\* The items of packages.json.
SummaryItems ==
    UNION { UNION { Range(packagesJson.text[a].v[b].v) :
                      b \in DOMAIN packagesJson.text[a].v } :
              a \in DOMAIN packagesJson.text }

\* The four computed lines an entry must end with.
EndsWith(e, path, size, md5, sha256) ==
    LET L == EntryLines(e)
        n == Len(L)
    IN  /\ n >= 4
        /\ L[n - 3] = <<"Filename", ": ">> \o path
        /\ L[n - 2] = <<"Size", ": ", ToString(size)>>
        /\ L[n - 1] = <<"MD5Sum", ": ">> \o md5
        /\ L[n]     = <<"SHA256", ": ">> \o sha256

NoFieldTwice(e) ==
    LET L == EntryLines(e) IN
    \A a, b \in DOMAIN L :
        (a # b /\ IsFieldLine(L[a]) /\ IsFieldLine(L[b]))
            => FieldName(L[a]) # FieldName(L[b])

\* The location an archive of the pool is indexed under.
ExpectedPath(f) ==
    IF /\ f.size >= LARGE_FILE_THRESHOLD
       /\ ~ releaseUrls.none
       /\ \E i \in DOMAIN releaseUrls.map : releaseUrls.map[i].k = f.name
    THEN (CHOOSE u \in Range(releaseUrls.map) : u.k = f.name).v
    ELSE <<"pool/main/">> \o join(Append(f.dir, f.name), <<"/">>)

RawControl(f) == parse_control(f.ar.control)

---------------------------------------------------------------------------
(* C1: idempotence of build_packages                                       *)

\* C1: when build_packages is called twice in succession with nothing changed
\* in between, the second call writes the same Packages, Packages.gz and
\* packages.json as the first.
C1_BuildIdempotent ==
    (lastOp = "build_packages" /\ prevOp = "build_packages")
        => /\ packages = pre.packages
           /\ packagesGz = pre.packagesGz
           /\ packagesJson = pre.packagesJson

\* The first of two successive builds pruned the pool, and the index holds
\* entries of the pool and of release.json.
C1_Witness ==
    /\ lastOp = "build_packages" /\ prevOp = "build_packages"
    /\ prevRemoved > 0
    /\ \E i, j \in DOMAIN entries :
          entries[i].origin = "pool" /\ entries[j].origin = "release"

---------------------------------------------------------------------------
(* C2: no field twice, computed fields last                                *)

\* C2: no rendered entry holds two lines with the same field name, and every
\* entry ends with Filename, Size, MD5Sum, SHA256, in that order, carrying the
\* computed values (of the archive, or of the registered entry).
C2_FieldOrder ==
    \A i \in DOMAIN entries :
        /\ NoFieldTwice(entries[i])
        /\ entries[i].origin = "pool" =>
              \E f \in pool :
                  /\ f.name = entries[i].file /\ f.dir = entries[i].dir
                  /\ EndsWith(entries[i], ExpectedPath(f), f.size,
                              <<"md5", "(", f.data, ")">>,
                              <<"sha256", "(", f.data, ")">>)
        /\ entries[i].origin = "release" =>
              \E r \in Range(releaseJson) :
                  /\ r.file = entries[i].file
                  /\ EndsWith(entries[i], r.url, r.size, r.md5, r.sha256)

\* The index holds an entry of a pool archive whose control text has a
\* Filename field of its own, and an entry of release.json whose cached control
\* text has Size and MD5sum fields.
C2_Witness ==
    /\ lastOp = "build_packages"
    /\ \E i \in DOMAIN entries :
          /\ entries[i].origin = "pool"
          /\ \E f \in pool :
                /\ f.name = entries[i].file /\ f.dir = entries[i].dir
                /\ DictHas(RawControl(f), <<"Filename">>)
    /\ \E j \in DOMAIN entries :
          /\ entries[j].origin = "release"
          /\ \E r \in Range(releaseJson) :
                /\ r.file = entries[j].file
                /\ DictHas(parse_control(r.control), <<"Size">>)
                /\ DictHas(parse_control(r.control), <<"MD5sum">>)

---------------------------------------------------------------------------
(* C3: the fields every entry has                                          *)

\* C3: every entry of the index has a Package line, a Filename line, a Size
\* line and at least one checksum line.
C3_RequiredFields ==
    \A i \in DOMAIN entries :
        /\ HasField(entries[i], <<"Package">>)
        /\ HasField(entries[i], <<"Filename">>)
        /\ HasField(entries[i], <<"Size">>)
        /\ HasField(entries[i], <<"MD5Sum">>) \/ HasField(entries[i], <<"SHA256">>)

---------------------------------------------------------------------------
(* C4: one entry per package                                               *)

\* C4: no two entries of the index resolve to the same package name.
C4_OneEntryPerPackage ==
    \A i, j \in DOMAIN entries :
        i # j => entries[i].package # entries[j].package

---------------------------------------------------------------------------
(* C5: registered archives                                                 *)

\* C5: after a build, every file name registered in release.json with a url has
\* exactly one entry in the index, and its Filename line is the registered url.
C5_RegisteredOnce ==
    lastOp = "build_packages" =>
        \A r \in Range(releaseJson) :
            r.url # << >> =>
                /\ Cardinality({ i \in DOMAIN entries : entries[i].file = r.file }) = 1
                /\ \A i \in DOMAIN entries :
                      entries[i].file = r.file =>
                          \E k \in DOMAIN EntryLines(entries[i]) :
                              EntryLines(entries[i])[k]
                                  = <<"Filename", ": ">> \o r.url

---------------------------------------------------------------------------
(* C6: skipped archives                                                    *)

\* The architecture build_packages resolves for an archive.
ResolvedArch(f) ==
    IF DictHas(RawControl(f), <<"Architecture">>)
    THEN DictAt(RawControl(f), <<"Architecture">>)
    ELSE <<"a", "a", "r", "c", "h", "6", "4">>

Unreadable(f) ==
    \/ ~ f.ar.listable
    \/ f.ar.members \cap {"control.tar.gz", "control.tar.xz", "control.tar.zst"} = {}
    \/ ~ f.ar.extractable

\* The archives the scan is to skip.
Skipped(f) == Unreadable(f) \/ ResolvedArch(f) \notin SUPPORTED_ARCHES

\* C6: after a build, an archive of the pool whose control text cannot be
\* extracted or whose architecture is unsupported has no entry and no summary
\* item and adds nothing to the architectures; every other archive of the pool
\* has its entry, and Packages, Packages.gz and packages.json are written.
C6_SkipAndContinue ==
    lastOp = "build_packages" =>
        /\ \A f \in pool :
              Skipped(f) =>
                  /\ PoolEntriesOf(f) = {}
                  /\ ~ \E it \in SummaryItems :
                          it.name = f.name /\ it.path = ExpectedPath(f)
        /\ arches = { entries[i].arch : i \in DOMAIN entries }
        /\ \A f \in pool : ~ Skipped(f) => Cardinality(PoolEntriesOf(f)) = 1
        /\ packages = File(packages_content(entries))
        /\ packagesGz = File(gzip(packages.text))
        /\ packagesJson.exists

\* The scan met an archive it had to skip and, after it, one it indexed.
C6_Witness ==
    /\ lastOp = "build_packages"
    /\ \E f, g \in pool :
          /\ Skipped(f) /\ ~ Skipped(g)
          /\ PartsLess(parts(f), parts(g))
          /\ PoolEntriesOf(g) # {}

---------------------------------------------------------------------------
(* C9: the pruning pass                                                    *)

InDir(files, d) == { f \in files : f.dir = d }

\* g is superseded by f: older, or as old with an earlier file name.
Supersedes(f, g) ==
    \/ g.mtime < f.mtime
    \/ g.mtime = f.mtime /\ StrLess(g.name, f.name)

\* C9: after a build, a directory that held more than one archive holds exactly
\* the one with the latest modification time, the lexicographically last file
\* name among those; a directory with one archive holds it still.
C9_PruneKeepsNewest ==
    lastOp = "build_packages" =>
        \A d \in { f.dir : f \in pre.pool } :
            LET before == InDir(pre.pool, d) IN
            /\ Cardinality(before) > 1 =>
                  \E f \in before :
                      /\ \A g \in before \ {f} : Supersedes(f, g)
                      /\ InDir(pool, d) = {f}
            /\ Cardinality(before) = 1 => InDir(pool, d) = before

\* A build pruned a directory whose archives all had the same modification
\* time.
C9_Witness ==
    /\ lastOp = "build_packages"
    /\ \E d \in { f.dir : f \in pre.pool } :
          /\ Cardinality(InDir(pre.pool, d)) > 1
          /\ \A f, g \in InDir(pre.pool, d) : f.mtime = g.mtime
          /\ Cardinality(InDir(pool, d)) = 1

---------------------------------------------------------------------------
(* C7, C8: import_debs                                                     *)

\* The package folder import_debs files a source archive under.
TargetOf(deb) == target_dir(import_pkgname(deb))

\* C7: after import_debs has completed on a non-empty source folder, every
\* package folder that was the target of a source archive holds at most one
\* archive, whatever the pool held before.
C7_OnePerTargetDir ==
    (lastOp = "import_debs" /\ counters.outcome = "completed") =>
        \A deb \in inputDir :
            Cardinality(InDir(pool, TargetOf(deb))) <= 1

\* An import completed whose source held two archives of one package, that
\* took an archive out of the target folder and skipped a copy.
C7_Witness ==
    /\ lastOp = "import_debs" /\ counters.outcome = "completed"
    /\ counters.skipped > 0 /\ counters.replaced > 0
    /\ \E a, b \in inputDir : a # b /\ TargetOf(a) = TargetOf(b)
    /\ \E deb \in inputDir : Cardinality(InDir(pre.pool, TargetOf(deb))) > 1

\* C8: a second import of the same source folder, directly after a first one
\* that completed, copies nothing, counts every source archive as skipped and
\* leaves the pool as it was.
C8_ImportIdempotent ==
    (/\ lastOp = "import_debs" /\ prevOp = "import_debs"
     /\ counters.outcome = "completed") =>
        /\ counters.copied = 0
        /\ counters.skipped = Cardinality(inputDir)
        /\ pool = pre.pool

---------------------------------------------------------------------------
(* C10: cleanup_large_files                                                *)

\* C10: cleanup_large_files takes out of the pool exactly the archives of at
\* least LARGE_FILE_THRESHOLD bytes, and leaves Packages, Packages.gz,
\* packages.json, Release and release.json as they were.
C10_CleanupFrame ==
    lastOp = "cleanup_large_files" =>
        /\ pool = { f \in pre.pool : f.size < LARGE_FILE_THRESHOLD }
        /\ packages = pre.packages
        /\ packagesGz = pre.packagesGz
        /\ packagesJson = pre.packagesJson
        /\ releaseFile = pre.releaseFile
        /\ releaseJson = pre.releaseJson

\* A cleanup took an archive of exactly the threshold out of a pool and left
\* a smaller one, with a non-empty index and a Release file in place.
C10_Witness ==
    /\ lastOp = "cleanup_large_files"
    /\ \E f \in pre.pool : f.size = LARGE_FILE_THRESHOLD /\ f \notin pool
    /\ pool # {}
    /\ packages.exists /\ packages.text # << >>
    /\ releaseFile.exists /\ packagesJson.exists

---------------------------------------------------------------------------
(* C11: add_to_release_json                                                *)

\* C11: starting without release.json or with an empty one, the registry
\* never holds two entries of one file name; a call for a file name already
\* there replaces that entry where it stands and leaves the others and their
\* order alone, a call for a new file name appends its entry, and a call for
\* an archive that does not exist returns False and leaves release.json alone.
C11_RegistryUnique ==
    /\ \A i, j \in DOMAIN releaseJson :
          i # j => releaseJson[i].file # releaseJson[j].file
    /\ lastOp = "add_to_release_json" =>
          LET old  == pre.releaseJson
              name == args.deb.name
          IN  IF ~ args.exists
              THEN /\ returned = Returned(FALSE)
                   /\ releaseJson = old
                   /\ store = pre.store
              ELSE /\ returned = Returned(TRUE)
                   /\ IF \E i \in DOMAIN old : old[i].file = name
                      THEN /\ Len(releaseJson) = Len(old)
                           /\ \A i \in DOMAIN old :
                                 IF old[i].file = name
                                 THEN /\ releaseJson[i].file = name
                                      /\ releaseJson[i].url = args.url
                                      /\ releaseJson[i].size = args.deb.size
                                 ELSE releaseJson[i] = old[i]
                      ELSE /\ Len(releaseJson) = Len(old) + 1
                           /\ SubSeq(releaseJson, 1, Len(old)) = old
                           /\ Last(releaseJson).file = name
                           /\ Last(releaseJson).url = args.url
                           /\ Last(releaseJson).size = args.deb.size

\* A call replaced the first of two entries by one with another url and left
\* the second alone.
C11_Witness ==
    /\ lastOp = "add_to_release_json" /\ args.exists
    /\ Len(pre.releaseJson) = 2
    /\ pre.releaseJson[1].file = args.deb.name
    /\ pre.releaseJson[1].url # args.url
    /\ releaseJson[1].url = args.url
    /\ releaseJson[2] = pre.releaseJson[2]

---------------------------------------------------------------------------
(* C12: a release.json that is no list of entries                          *)

\* C12: when release.json is unreadable, malformed, or valid JSON that is no
\* list of records, build_packages and add_to_release_json take the registry
\* as empty and run to completion: build_packages writes Packages, Packages.gz
\* and packages.json from the pool alone, and add_to_release_json for an
\* archive that exists leaves a registry of that one entry.
C12_CorruptNotFatal ==
    pre.store \notin {"list", "absent"} =>
        /\ lastOp = "build_packages" =>
              /\ returned.how = "returned"
              /\ packages.exists /\ packagesGz.exists /\ packagesJson.exists
              /\ \A i \in DOMAIN entries : entries[i].origin = "pool"
        /\ (lastOp = "add_to_release_json" /\ args.exists) =>
              /\ returned.how = "returned"
              /\ store = "list"
              /\ Len(releaseJson) = 1
              /\ releaseJson[1].file = args.deb.name

---------------------------------------------------------------------------
(* C13: parse_control                                                      *)

FieldValue(line) ==
    strip(SubSeq(line, IndexOf(line, ": ") + 1, Len(line)))

\* The value of the field that line i of L starts: its own, trimmed, and
\* every continuation line up to the next line that starts a field.
ValueFrom(L, i) ==
    LET later == { j \in DOMAIN L : j > i /\ IsFieldLine(L[j]) }
        stop  == IF later = {} THEN Len(L) + 1
                 ELSE CHOOSE j \in later : \A k \in later : j <= k
        F[j \in i .. (stop - 1)] ==
            IF j = i THEN FieldValue(L[i])
            ELSE IF IsContinuation(L[j]) THEN F[j - 1] \o <<"\n">> \o L[j]
            ELSE F[j - 1]
    IN  F[stop - 1]

\* The fields of a text: for every field name, the value from the last line
\* that starts it.
FieldsOf(text) ==
    LET L      == splitlines(text)
        starts == { i \in DOMAIN L : IsFieldLine(L[i]) }
    IN  { << FieldName(L[i]), ValueFrom(L, i) >> :
            i \in { i \in starts :
                      \A j \in starts : j > i => FieldName(L[j]) # FieldName(L[i]) } }

\* C13: parse_control returns, for every text, a record with each field name
\* once: a line with ": " that does not start with a space or tab starts a
\* field, name and value trimmed; a line that starts with a space or tab is
\* appended, after a line break, to the value of the field started last, and
\* dropped when none was started; any other line is ignored.
C13_ParseControl ==
    lastOp = "parse_control" =>
        /\ returned.how = "returned"
        /\ \A a, b \in DOMAIN returned.value :
              a # b => returned.value[a].k # returned.value[b].k
        /\ { << returned.value[a].k, returned.value[a].v >> :
                a \in DOMAIN returned.value } = FieldsOf(args.text)

---------------------------------------------------------------------------
(* C14: the order of the fields in repo_manager.build_packages             *)

\* C14: in every block repo_manager.build_packages renders, the fields of the
\* required list come first, then the record's other fields, and the computed
\* Filename, Size and SHA256 lines come last, in that order; no field name is
\* rendered twice.
C14_ManagerFieldOrder ==
    lastOp = "repo_manager.build_packages" =>
        \A i \in DOMAIN entries :
            LET L == EntryLines(entries[i])
                n == Len(L)
            IN  /\ NoFieldTwice(entries[i])
                /\ n >= 3
                /\ FieldName(L[n - 2]) = <<"Filename">>
                /\ FieldName(L[n - 1]) = <<"Size">>
                /\ FieldName(L[n]) = <<"SHA256">>
                /\ \A a, b \in 1 .. (n - 3) :
                      (a < b /\ FieldName(L[b]) \in Range(REQUIRED_FIRST))
                          => FieldName(L[a]) \in Range(REQUIRED_FIRST)

---------------------------------------------------------------------------
(* C15: the end of a run of main                                           *)

\* The index entries that name a path of the pool.
LocalEntries ==
    { i \in DOMAIN entries :
        \E k \in DOMAIN EntryLines(entries[i]) :
            /\ FieldName(EntryLines(entries[i])[k]) = <<"Filename">>
            /\ FieldValue(EntryLines(entries[i])[k])[1] = "pool/main/" }

\* C15: at the end of a run of main, after cleanup_large_files, every index
\* entry whose Filename is a path of the pool is of an archive the pool still
\* holds.
C15_IndexedStillInPool ==
    lastOp = "cleanup_large_files" =>
        \A i \in LocalEntries :
            \E f \in pool :
                <<"pool/main/">> \o join(parts(f), <<"/">>)
                    = FieldValue(CHOOSE l \in Range(EntryLines(entries[i])) :
                                    IsFieldLine(l) /\ FieldName(l) = <<"Filename">>)

---------------------------------------------------------------------------
(* C16: what the pruning pass deletes                                      *)

\* The package an archive is of: the Package field of its control text, or
\* the file name up to the first underscore.
PackageOf(f) ==
    LET ctrl == control_file_contents(f) IN
    IF ctrl.ok
    THEN DictGet(parse_control(ctrl.text), <<"Package">>,
                 split(stem(f.name), "_")[1])
    ELSE split(stem(f.name), "_")[1]

\* C16: the pruning pass deletes only archives of the package of the archive
\* it keeps in the same directory, so every package the pool held before the
\* build is still in it after.
C16_PruneSamePackage ==
    lastOp = "build_packages" =>
        /\ \A f \in pre.pool \ pool :
              \A g \in InDir(pool, f.dir) : PackageOf(g) = PackageOf(f)
        /\ { PackageOf(f) : f \in pre.pool } = { PackageOf(f) : f \in pool }

---------------------------------------------------------------------------
(* C17: the release value of a summary item                                *)

\* C17: every item of packages.json has a release value that is true or
\* false, and true exactly when its path is a URL and no path of the pool.
C17_ReleaseBoolean ==
    lastOp = "build_packages" =>
        \A it \in SummaryItems :
            /\ it.release \in {"true", "false"}
            /\ it.release = "true" <=>
                  (it.path # << >> /\ it.path[1] # "pool/main/")

=============================================================================
